---------------------------- MODULE Spec2Model ----------------------------
(***************************************************************************)
(* Physarum: the host side of a GPU slime-mould simulation.                *)
(*                                                                         *)
(* The model covers the simulation parameters (parameters.rs), the ticker  *)
(* task and the winit event loop of run() (lib.rs), State::update and      *)
(* State::render with the gpu_mutex they share, and the device queue the   *)
(* two of them submit command buffers to; and, each under a specification  *)
(* of its own, the seeding of the agents (agent.rs, create_data_layer),    *)
(* ShaderParameters::randomize and the tick rates other than 60.           *)
(*                                                                         *)
(* u32 values that can come near 2^32 are kept as two 16-bit halves        *)
(* [hi, lo] (value = hi * 65536 + lo), because the model checker's         *)
(* integers stop at 2^31 - 1.  u32 arithmetic wraps modulo 2^32, which is  *)
(* what a release build does; a build with overflow checks panics at the   *)
(* same inputs instead.                                                    *)
(***************************************************************************)
EXTENDS Integers, Naturals, Sequences, FiniteSets, TLC

VARIABLES
    params,          \* State.params: parameters::Parameters
    exiting,         \* State.exiting
    gpu_mutex,       \* State.gpu_mutex: "free", or the thread holding the guard
    ticker_pc,       \* position of the ticker task spawned by run()
    tick_encoder,    \* update()'s command_encoder: the passes recorded so far
    tick_submits,    \* command buffers submitted by the current update() call
    main_pc,         \* position of the thread running the event loop
    render_encoder,  \* render()'s command_encoder
    control_flow,    \* the event loop's ControlFlow
    next_frame,      \* the deadline of ControlFlow::WaitUntil: microseconds after the
                     \* handler's now, and whether the wait has run to it
    redraw_requested,\* a RedrawRequested event is pending for the window
    exit_requested,  \* elwt.exit() was called
    frame,           \* what the current RedrawRequested handler has done
    queue,           \* device.queue: command buffers submitted, not yet executed
    ticks_after_exit,\* ticks submitted while State.exiting was set
    sleep_ns,        \* nanoseconds of the ticker's last sleep, 0 before the first
    agents,          \* create_data_layer's Vec<Agent>, dropped when it returns
    data_layer,      \* the data-layer buffer and its layout, once created
    trail            \* the trail-layer on the GPU: "decayed" when the last
                     \* dispatch executed was a diffuse_and_decay, else "settled"

vars == <<params, exiting, gpu_mutex, ticker_pc, tick_encoder, tick_submits,
          main_pc, render_encoder, control_flow, next_frame, redraw_requested,
          exit_requested, frame, queue, ticks_after_exit, sleep_ns,
          agents, data_layer, trail>>

tickerVars == <<ticker_pc, tick_encoder, tick_submits, ticks_after_exit, sleep_ns>>
seedVars == <<agents, data_layer>>
mainVars == <<main_pc, render_encoder, control_flow, next_frame, redraw_requested,
              exit_requested, frame>>

---------------------------------------------------------------------------
(* Bounds of the model *)

\* Command buffers the device queue holds before the GPU has executed one.
MaxQueue == 2

\* The largest population whose seeding is followed agent by agent.
MaxAgents == 2

---------------------------------------------------------------------------
(* 32-bit unsigned integers as two 16-bit halves *)

Half == 2^16

\* The u32 with value n, for 0 <= n < 2^31.
U32(n) == [hi |-> n \div Half, lo |-> n % Half]

\* u32::MAX - k, for 0 <= k < 65536.
U32FromMax(k) == [hi |-> Half - 1, lo |-> Half - 1 - k]

\* a + k in u32 arithmetic (wrapping at 2^32), for a small k.
U32Add(a, k) ==
    [hi |-> (a.hi + (a.lo + k) \div Half) % Half, lo |-> (a.lo + k) % Half]

\* a / d in u32 arithmetic (truncating), for 2 <= d <= 2^15; the quotient
\* is below 2^31 and is returned as a plain integer.
U32Div(a, d) ==
    (a.hi \div d) * Half + ((a.hi % d) * Half + a.lo) \div d

\* Comparison of two values kept as halves (hi may exceed 16 bits).
WideLeq(a, b) == a.hi < b.hi \/ (a.hi = b.hi /\ a.lo <= b.lo)

\* a * k without wrapping, for a small k: hi is left unbounded.
WideMul(a, k) ==
    [hi |-> a.hi * k + (a.lo * k) \div Half, lo |-> (a.lo * k) % Half]

IsZero(a) == a.hi = 0 /\ a.lo = 0

---------------------------------------------------------------------------
(* f32 arithmetic on values m * 2^e with a mantissa m of few bits *)

\* An f32 is kept as num / den * 2^exp with small integers num and den.
\* Where the f32 is the result of a division, the record holds the exact
\* quotient, of which the f32 is the nearest value.  den = 0 stands for an
\* infinity (num # 0) or a NaN (num = 0).  A zero has no sign here.
F32E(num, den, exp) == [num |-> num, den |-> den, exp |-> exp]
F32(num, den) == F32E(num, den, 0)

F32Zero == F32(0, 1)
F32Infinity == F32(1, 0)
F32NaN == F32(0, 0)

\* `x as u64` of an f32: the fraction is cut off, and a negative value or a
\* NaN gives 0.
AsU64(x) ==
    IF x.num <= 0 THEN 0
    ELSE IF x.exp >= 0 THEN (x.num * 2^x.exp) \div x.den
    ELSE x.num \div (x.den * 2^(0 - x.exp))

\* The exponent of the smallest subnormal f32, 2^-149, the exponent 2^128
\* that no finite f32 reaches, and the 24 bits of an f32's mantissa.
F32MinExp == 0 - 149
F32MaxExp == 128
F32MantissaBits == 24

RECURSIVE Gcd(_, _)
Gcd(a, b) == IF b = 0 THEN a ELSE Gcd(b, a % b)

Abs(n) == IF n < 0 THEN 0 - n ELSE n

\* The f32 nearest to m * 2^e for an integer m of fewer than 24 bits: the
\* value itself when it is a multiple of 2^-149 below 2^128, an infinity
\* at or above 2^128, and below 2^-149 the nearest multiple of 2^-149, ties
\* to even, which is 0 for a value of at most 2^-150.
F32Round(m, e) ==
    IF m = 0 THEN F32Zero
    ELSE IF e >= F32MinExp
    THEN IF F32MaxExp - e >= F32MantissaBits THEN F32E(m, 1, e)
         ELSE IF F32MaxExp - e >= 0 /\ Abs(m) < 2^(F32MaxExp - e) THEN F32E(m, 1, e)
         ELSE F32Infinity
    ELSE LET k == F32MinExp - e IN
         IF k > F32MantissaBits + 1 THEN F32Zero
         ELSE LET q == Abs(m) \div 2^k
                  r == Abs(m) % 2^k
                  up == r * 2 > 2^k \/ (r * 2 = 2^k /\ q % 2 = 1)
                  n == IF up THEN q + 1 ELSE q
              IN  IF n = 0 THEN F32Zero
                  ELSE F32E(IF m < 0 THEN 0 - n ELSE n, 1, F32MinExp)

\* -x
F32Neg(x) == [x EXCEPT !.num = 0 - x.num]

\* a + b for two values m * 2^e: exact when the exponents agree; when they
\* are 36 or more apart, the smaller value is less than half a unit in the
\* last place of the larger and the sum is the larger.
F32Add(a, b) ==
    CASE a.den = 0 -> a
      [] b.den = 0 -> b
      [] a.num = 0 -> b
      [] b.num = 0 -> a
      [] a.exp = b.exp -> F32Round(a.num + b.num, a.exp)
      [] a.exp - b.exp >= 36 -> a
      [] b.exp - a.exp >= 36 -> b

\* a - b
F32Sub(a, b) == F32Add(a, F32Neg(b))

\* x.powi(2)
F32Powi2(x) == IF x.den = 0 THEN x ELSE F32Round(x.num * x.num, 2 * x.exp)

\* x.sqrt() of 0, of infinity, or of a perfect square with an even
\* exponent, whose root is exact.
F32Sqrt(x) ==
    CASE x.den = 0 \/ x.num = 0 -> x
      [] x.den = 1 /\ x.num > 0 /\ x.exp % 2 = 0 ->
           F32E(CHOOSE r \in 1..x.num : r * r = x.num, 1, x.exp \div 2)

\* a / b: the exact quotient in lowest terms; x / infinity is 0, x / 0 is
\* an infinity and 0 / 0 is a NaN.
F32Div(a, b) ==
    CASE b.den = 0 -> F32Zero
      [] b.num = 0 -> IF a.num = 0 THEN F32NaN ELSE F32Infinity
      [] a.num = 0 -> F32Zero
      [] OTHER ->
           LET n == a.num * b.den
               d == a.den * b.num
               g == Gcd(Abs(n), Abs(d))
           IN  F32E((IF d < 0 THEN 0 - n ELSE n) \div g, Abs(d) \div g, a.exp - b.exp)

---------------------------------------------------------------------------
(* parameters.rs *)

DefaultTargetTicksPerSecond == 60
DefaultInitialCircleRadius == 500
NanosPerSecond == 1000000000
DefaultNumberOfAgents == 500000
DefaultNumberOfActiveAgents == 10000000

\* size_of::<Agent>(): two [f32; 2]
SizeOfAgent == 16
SizeOfF32 == 4

\* Device::new requests wgpu::Limits::default(); a storage buffer binding
\* may then span at most 128 MiB, and creating a larger one is a
\* validation error that aborts State::new.
MaxStorageBufferBindingSize == 134217728

\* Window sizes the platform may hand to State::new (run() asks for
\* 1400 x 1400 physical pixels).
RequestedWindowSize == 1400
CanvasSizes ==
    { <<RequestedWindowSize, RequestedWindowSize>>,
      <<RequestedWindowSize + 1, RequestedWindowSize>>,
      <<RequestedWindowSize, RequestedWindowSize + 7>>,
      <<7, 9>> }

\* Values of Parameters::number_of_agents the builder accepts.
AgentCounts ==
    { U32(1), U32(DefaultNumberOfAgents),
      U32(MaxStorageBufferBindingSize \div SizeOfAgent),
      U32(MaxStorageBufferBindingSize \div SizeOfAgent + 1),
      U32FromMax(0) }

\* Values of ShaderParameters::number_of_active_agents the builder accepts.
ActiveAgentCounts ==
    { U32(1), U32(2048), U32(2049), U32(65536), U32(65537),
      U32(DefaultNumberOfAgents),
      U32(MaxStorageBufferBindingSize \div SizeOfAgent),
      U32(DefaultNumberOfActiveAgents),
      U32FromMax(63), U32FromMax(62), U32FromMax(0) }

\* Parameters::builder()...build(): every field the builder call leaves out
\* takes its default.  The fields of initial_conditions and of
\* shader_parameters are kept in the same record as those of Parameters.
Parameters(population, active, size) ==
    [ target_ticks_per_second |-> F32(DefaultTargetTicksPerSecond, 1),
      number_of_agents        |-> population,
      initial_circle_radius   |-> F32(DefaultInitialCircleRadius, 1),
      initial_heading         |-> "Random",
      agent_speed             |-> F32(1, 1),
      bool_enable_agent_bounce            |-> 1,
      bool_enable_agent_deposit           |-> 1,
      bool_enable_agent_rotate            |-> 1,
      bool_enable_agent_rotate_left       |-> 1,
      bool_enable_agent_rotate_randomly   |-> 1,
      bool_enable_agent_rotate_right      |-> 1,
      bool_enable_color                   |-> 1,
      bool_enable_decay                   |-> 1,
      bool_enable_diffuse                 |-> 1,
      bool_enable_render_trail_map        |-> 1,
      bool_enable_high_density_dispersion |-> 0,
      canvas_width            |-> size[1],
      canvas_height           |-> size[2],
      number_of_active_agents |-> active,
      vertex_stretch              |-> F32(1, 1),
      decay_strength              |-> F32(32, 100),
      sensor_angle_degrees        |-> F32(242, 10),
      max_turn_angle_degrees      |-> F32(2915, 100),
      max_rand_turn_angle_degrees |-> F32(138, 100),
      high_density_threshold      |-> F32(56, 100),
      high_density_speed_boost    |-> F32(85, 100),
      deposit_strength            |-> F32(3, 100),
      sensor_distance             |-> F32(338, 10) ]

\* Tick rates: 60, 1, 59.5, 2.5 and 0.5 ticks per second.
TickRates ==
    { F32(DefaultTargetTicksPerSecond, 1), F32(1, 1), F32(119, 2), F32(5, 2),
      F32(1, 2) }

\* The configuration State::new builds: the defaults, and the window's size.
DefaultParameters(size) ==
    Parameters(U32(DefaultNumberOfAgents), U32(DefaultNumberOfActiveAgents), size)

\* rng.gen_range(lo..hi): the values the model draws from the half-open
\* range are its lower end and its midpoint.
GenRange(lo, hi) ==
    { lo, F32(lo.num * hi.den + hi.num * lo.den, 2 * lo.den * hi.den) }

\* The eight draws of one call of randomize.
RngDraws ==
    [ decay_strength              : GenRange(F32(1, 1000), F32(5, 10)),
      sensor_angle_degrees        : GenRange(F32(1, 1), F32(120, 1)),
      max_turn_angle_degrees      : GenRange(F32(1, 1), F32(60, 1)),
      max_rand_turn_angle_degrees : GenRange(F32(0, 1), F32(10, 1)),
      high_density_speed_boost    : GenRange(F32(0, 1), F32(20, 1)),
      high_density_threshold      : GenRange(F32(50, 100), F32(1, 1)),
      deposit_strength            : GenRange(F32(1, 1000), F32(3, 100)),
      sensor_distance             : GenRange(F32(5, 1), F32(14, 1)) ]

\* Mutant of randomize: the active-agent count is drawn anew as well.
randomize_active_agents(self, rng) ==
    [self EXCEPT !.decay_strength = rng.decay_strength,
                 !.sensor_angle_degrees = rng.sensor_angle_degrees,
                 !.max_turn_angle_degrees = rng.max_turn_angle_degrees,
                 !.max_rand_turn_angle_degrees = rng.max_rand_turn_angle_degrees,
                 !.high_density_speed_boost = rng.high_density_speed_boost,
                 !.high_density_threshold = rng.high_density_threshold,
                 !.deposit_strength = rng.deposit_strength,
                 !.sensor_distance = rng.sensor_distance,
                 !.number_of_active_agents = U32(rng.sensor_distance.num)]

\* ShaderParameters::randomize
randomize(self, rng) ==
    [self EXCEPT !.decay_strength = rng.decay_strength,
                 !.sensor_angle_degrees = rng.sensor_angle_degrees,
                 !.max_turn_angle_degrees = rng.max_turn_angle_degrees,
                 !.max_rand_turn_angle_degrees = rng.max_rand_turn_angle_degrees,
                 !.high_density_speed_boost = rng.high_density_speed_boost,
                 !.high_density_threshold = rng.high_density_threshold,
                 !.deposit_strength = rng.deposit_strength,
                 !.sensor_distance = rng.sensor_distance]

---------------------------------------------------------------------------
(* agent.rs *)

\* Points of the unit disc, in 500ths, and the cosine and sine of a few
\* angles: what the model draws in place of rng's angle and radius.
UnitDiscPoints == { <<0, 0>>, <<3, 4>>, <<-3, 4>>, <<0, -5>>, <<12, -5>> }
UnitVectors == { <<F32(1, 1), F32Zero>>, <<F32(3, 5), F32(4, 5)>>,
                 <<F32Zero, F32(-1, 1)>> }

\* random_point_in_circle: radius * sqrt(u) * (cos theta, sin theta)
random_point_in_circle(radius) ==
    { << F32Round((radius.num * v[1]) \div DefaultInitialCircleRadius, radius.exp),
         F32Round((radius.num * v[2]) \div DefaultInitialCircleRadius, radius.exp) >>
      : v \in UnitDiscPoints }

\* random_normalized_vector: (cos theta, sin theta)
random_normalized_vector == UnitVectors

\* Mutant of normalize: no check for a zero magnitude.
normalize_unchecked(vec) ==
    LET magnitude == F32Sqrt(F32Add(F32Powi2(vec[1]), F32Powi2(vec[2])))
    IN  <<F32Div(vec[1], magnitude), F32Div(vec[2], magnitude)>>

normalize(vec) ==
    LET magnitude == F32Sqrt(F32Add(F32Powi2(vec[1]), F32Powi2(vec[2])))
    IN  IF magnitude = F32Zero
        THEN <<F32Zero, F32Zero>>
        ELSE <<F32Div(vec[1], magnitude), F32Div(vec[2], magnitude)>>

vector_from_a_to_b(a, b) == <<F32Sub(b[1], a[1]), F32Sub(b[2], a[2])>>

\* Mutant of InitialDirection: Outward is computed like Inward.
InitialDirectionAlwaysInward(initial_heading, position, middle, random) ==
    CASE initial_heading = "Inward"  -> normalize(vector_from_a_to_b(position, middle))
      [] initial_heading = "Outward" -> normalize(vector_from_a_to_b(position, middle))
      [] initial_heading = "Random"  -> random

\* let dir = match params.initial_conditions.initial_heading { ... }
InitialDirection(initial_heading, position, middle, random) ==
    CASE initial_heading = "Inward"  -> normalize(vector_from_a_to_b(position, middle))
      [] initial_heading = "Outward" -> normalize(vector_from_a_to_b(middle, position))
      [] initial_heading = "Random"  -> random

\* The canvas midpoint of Agent::new_with_random_start_position.
Middle(p) == <<F32(p.canvas_width \div 2, 1), F32(p.canvas_height \div 2, 1)>>

\* Agent::new_with_random_start_position, for the point and the direction
\* the random number generator gives.
new_with_random_start_position(p, in_circle, random) ==
    LET middle == Middle(p)
        position == <<F32Add(middle[1], in_circle[1]), F32Add(middle[2], in_circle[2])>>
    IN  [ position |-> position,
          velocity |-> InitialDirection(p.initial_heading, position, middle, random) ]

\* Mutant of RangeExhausted: the range is 0..=number_of_agents.
RangeInclusiveExhausted(p, produced) == U32(produced) = U32Add(p.number_of_agents, 1)

\* (0..params.number_of_agents) has no next element.
RangeExhausted(p, produced) == U32(produced) = p.number_of_agents

\* initial_agent_distribution: one step of the iterator, which maps the next
\* element of the range to a new agent.
SeedAgent ==
    /\ ~data_layer.created
    /\ ~RangeExhausted(params, Len(agents))
    /\ \E in_circle \in random_point_in_circle(params.initial_circle_radius),
          random \in random_normalized_vector :
          agents' = Append(agents, new_with_random_start_position(params, in_circle, random))
    /\ UNCHANGED <<params, data_layer, exiting, gpu_mutex, tickerVars, mainVars, queue, trail>>

\* create_data_layer once the agents are collected: the buffer takes
\* bytemuck::cast_slice(&agents), and the layout's min_binding_size is
\* number_of_agents * size_of::<Agent>() in u64 (BufferSize::new(0) is None:
\* no minimum).
CreateDataLayer ==
    /\ ~data_layer.created
    /\ RangeExhausted(params, Len(agents))
    /\ data_layer' = [created |-> TRUE,
                      size |-> WideMul(U32(Len(agents)), SizeOfAgent),
                      min_binding_size |-> WideMul(params.number_of_agents, SizeOfAgent)]
    /\ UNCHANGED <<params, agents, exiting, gpu_mutex, tickerVars, mainVars, queue, trail>>

\* create_data_layer returns its Resource; the Vec of agents is dropped.
CreateDataLayerReturn ==
    /\ data_layer.created
    /\ agents # <<>>
    /\ agents' = <<>>
    /\ UNCHANGED <<params, data_layer, exiting, gpu_mutex, tickerVars, mainVars, queue, trail>>

---------------------------------------------------------------------------
(* resources.rs *)

\* create_data_layer: number_of_agents * size_of::<Agent>() bytes, computed
\* in u64; the bind group is created only if that fits the device's limit.
DataLayerSize(p) == WideMul(p.number_of_agents, SizeOfAgent)
DataLayerFits(p) ==
    /\ ~IsZero(p.number_of_agents)
    /\ WideLeq(DataLayerSize(p), U32(MaxStorageBufferBindingSize))

\* create_trail_layer: canvas_width * canvas_height f32 values.
TrailLayerSize(p) == p.canvas_width * p.canvas_height * SizeOfF32
TrailLayerFits(p) ==
    /\ TrailLayerSize(p) > 0
    /\ TrailLayerSize(p) <= MaxStorageBufferBindingSize

\* Resources::new succeeds.
ResourcesNew(p) == DataLayerFits(p) /\ TrailLayerFits(p)

\* The binding sets, in the order of the pipeline layout.
BindGroups == <<"shader_context", "data_layer", "trail_layer">>

\* Mutant of Visibility: the agent array is visible to every stage.
VisibilityAgentsEverywhere(resource) ==
    IF resource = "trail_layer" THEN {"COMPUTE", "FRAGMENT"}
    ELSE {"COMPUTE", "VERTEX", "FRAGMENT"}

\* The shader stages each bind group layout entry is visible to.
Visibility(resource) ==
    CASE resource = "shader_context" -> {"COMPUTE", "VERTEX", "FRAGMENT"}
      [] resource = "data_layer"     -> {"COMPUTE"}
      [] resource = "trail_layer"    -> {"COMPUTE", "FRAGMENT"}

\* The shader stages a pipeline runs: the two compute pipelines have one
\* compute entry point each, the render pipeline a vertex and a fragment one.
PipelineStages(pipeline) ==
    IF pipeline = "render_pipeline" THEN {"VERTEX", "FRAGMENT"} ELSE {"COMPUTE"}


---------------------------------------------------------------------------
(* lib.rs: State::new *)

\* State::new returned: the resources were created, nothing has run yet.
NotStarted ==
    /\ exiting = FALSE
    /\ gpu_mutex = "free"
    /\ ticker_pc = "loop"
    /\ tick_encoder = <<>>
    /\ tick_submits = 0
    /\ main_pc = "events"
    /\ render_encoder = <<>>
    /\ control_flow = "Wait"
    /\ next_frame = [after |-> 0, reached |-> FALSE]
    /\ redraw_requested = FALSE
    /\ exit_requested = FALSE
    /\ frame = [surface |-> "none", reconfigures |-> 0, exits |-> 0,
                passes |-> 0, presented |-> FALSE]
    /\ queue = <<>>
    /\ ticks_after_exit = 0
    /\ sleep_ns = 0
    /\ trail = "settled"

\* State::new returned: Resources::new has created the buffers, and the
\* Vec of agents the data-layer was filled from is gone.
Constructed ==
    /\ ResourcesNew(params)
    /\ agents = <<>>
    /\ data_layer = [created |-> TRUE,
                     size |-> DataLayerSize(params),
                     min_binding_size |-> DataLayerSize(params)]
    /\ NotStarted

\* Every configuration the model looks at.
Init ==
    /\ \E population \in AgentCounts, active \in ActiveAgentCounts, size \in CanvasSizes :
          params = Parameters(population, active, size)
    /\ Constructed

\* The configuration of State::new with another tick rate, as
\* Parameters::builder().target_ticks_per_second(t) sets it.
InitTickRates ==
    /\ \E t \in TickRates :
          params = [DefaultParameters(<<RequestedWindowSize, RequestedWindowSize>>)
                       EXCEPT !.target_ticks_per_second = t]
    /\ Constructed

---------------------------------------------------------------------------
(* lib.rs: gpu_mutex *)

\* Mutant of MutexLock: the guard is handed out without waiting.
MutexLockNoWait(thread) ==
    /\ gpu_mutex' = thread

\* self.gpu_mutex.lock().unwrap(): blocks until the mutex is free.
MutexLock(thread) ==
    /\ gpu_mutex = "free"
    /\ gpu_mutex' = thread

\* Mutant of MutexUnlock: the guard is leaked and the mutex stays locked.
MutexUnlockLeaks(thread) ==
    /\ gpu_mutex = thread
    /\ gpu_mutex' = gpu_mutex

\* drop(gpu_lock)
MutexUnlock(thread) ==
    /\ gpu_mutex = thread
    /\ gpu_mutex' = "free"

\* The command buffers of update() among those of a queue.
TicksIn(q) == { j \in DOMAIN q : q[j].label = "command-encoder" }

\* self.device.queue.submit(command_buffer); a buffer in the queue carries
\* the number of ticks submitted before it that the device has yet to
\* execute.
QueueSubmit(command_buffer) ==
    /\ Len(queue) < MaxQueue
    /\ queue' = Append(queue, [label |-> command_buffer.label,
                               passes |-> command_buffer.passes,
                               ticks_ahead |-> Cardinality(TicksIn(queue))])

---------------------------------------------------------------------------
(* lib.rs: State::update *)

\* Must match what is in the shader code.
WORKGROUP_SIZE_X == 8
WORKGROUP_SIZE_Y == 8
WORKGROUP_SIZE_Z == 1
NUMBER_OF_WORKGROUPS_X == 32

threads_per_workgroup == WORKGROUP_SIZE_X * WORKGROUP_SIZE_Y * WORKGROUP_SIZE_Z

\* Mutant of workgroups_needed: the division rounds down.
workgroups_needed_floor(number_of_active_agents) ==
    U32Div(number_of_active_agents, threads_per_workgroup)

\* (number_of_active_agents + (threads_per_workgroup - 1)) / threads_per_workgroup
workgroups_needed(number_of_active_agents) ==
    U32Div(U32Add(number_of_active_agents, threads_per_workgroup - 1),
           threads_per_workgroup)

\* Mutant of number_of_workgroups_y: the round-up adds the divisor.
number_of_workgroups_y_plus32(number_of_active_agents) ==
    (workgroups_needed(number_of_active_agents) + 32) \div 32

\* (workgroups_needed + 31) / 32; workgroups_needed is below 2^26, so this
\* sum cannot wrap.
number_of_workgroups_y(number_of_active_agents) ==
    (workgroups_needed(number_of_active_agents) + 31) \div 32

\* The grid of the diffuse_and_decay dispatch.
DiffuseAndDecayWorkgroups(p) ==
    <<p.canvas_width \div 8, p.canvas_height \div 8, 1>>

\* The grid of the agent_sense_move_deposit dispatch.
AgentSenseMoveDepositWorkgroups(p) ==
    <<NUMBER_OF_WORKGROUPS_X, number_of_workgroups_y(p.number_of_active_agents), 1>>

\* The bind groups of a pass by slot, from its calls of
\* set_bind_group(slot, bind_group): element slot + 1 is the group bound at
\* the slot.
SetBindGroups(calls) ==
    [i \in 1..Len(calls) |->
        calls[CHOOSE k \in DOMAIN calls : calls[k][1] = i - 1][2]]

\* compute_pass.set_bind_group(0 | 1 | 2, ...) of the diffuse_and_decay pass
DiffuseAndDecayBindGroups ==
    SetBindGroups(<< <<0, "shader_context">>, <<1, "data_layer">>,
                     <<2, "trail_layer">> >>)

\* Mutant of AgentSenseMoveDepositBindGroups: slots 1 and 2 are exchanged.
AgentSenseMoveDepositBindGroupsExchanged ==
    SetBindGroups(<< <<0, "shader_context">>, <<2, "data_layer">>,
                     <<1, "trail_layer">> >>)

\* compute_pass.set_bind_group(0 | 1 | 2, ...) of the
\* agent_sense_move_deposit pass
AgentSenseMoveDepositBindGroups ==
    SetBindGroups(<< <<0, "shader_context">>, <<1, "data_layer">>,
                     <<2, "trail_layer">> >>)

DiffuseAndDecayPass(p) ==
    [ label       |-> "diffuse-and-decay-cp",
      pipeline    |-> "diffuse_and_decay",
      bind_groups |-> DiffuseAndDecayBindGroups,
      work        |-> DiffuseAndDecayWorkgroups(p) ]

AgentSenseMoveDepositPass(p) ==
    [ label       |-> "agent-sense-move-deposit-cp",
      pipeline    |-> "agent_sense_move_deposit",
      bind_groups |-> AgentSenseMoveDepositBindGroups,
      work        |-> AgentSenseMoveDepositWorkgroups(p) ]

\* Mutant of UpdatePasses: the pass of agent_sense_move_deposit is left out.
UpdatePassesDecayOnly(p) == <<DiffuseAndDecayPass(p)>>

\* Mutant of UpdatePasses: the two passes are recorded the other way round.
UpdatePassesMoveFirst(p) == <<AgentSenseMoveDepositPass(p), DiffuseAndDecayPass(p)>>

\* The passes update() records, in the order it records them.
UpdatePasses(p) == <<DiffuseAndDecayPass(p), AgentSenseMoveDepositPass(p)>>

\* let gpu_lock = self.gpu_mutex.lock().unwrap(); create_command_encoder
UpdateLock ==
    /\ ticker_pc = "update"
    /\ MutexLock("ticker")
    /\ tick_encoder' = <<>>
    /\ tick_submits' = 0
    /\ ticker_pc' = "encode"
    /\ UNCHANGED <<params, seedVars, trail, exiting, mainVars, queue, ticks_after_exit, sleep_ns>>

\* The two compute passes.
UpdateEncode ==
    /\ ticker_pc = "encode"
    /\ tick_encoder' = tick_encoder \o UpdatePasses(params)
    /\ ticker_pc' = "submit"
    /\ UNCHANGED <<params, seedVars, trail, exiting, gpu_mutex, tick_submits, mainVars, queue,
                   ticks_after_exit, sleep_ns>>

\* command_encoder.finish(); self.device.queue.submit(Some(command_buffer))
UpdateSubmit ==
    /\ ticker_pc = "submit"
    /\ QueueSubmit([label |-> "command-encoder", passes |-> tick_encoder])
    /\ tick_submits' = tick_submits + 1
    /\ ticks_after_exit' = IF exiting THEN ticks_after_exit + 1 ELSE ticks_after_exit
    /\ ticker_pc' = "unlock"
    /\ UNCHANGED <<params, seedVars, trail, exiting, gpu_mutex, tick_encoder, mainVars, sleep_ns>>

\* drop(gpu_lock); update() returns
UpdateUnlock ==
    /\ ticker_pc = "unlock"
    /\ MutexUnlock("ticker")
    /\ ticker_pc' = "sleep"
    /\ UNCHANGED <<params, seedVars, trail, exiting, tick_encoder, tick_submits, mainVars, queue,
                   ticks_after_exit, sleep_ns>>

---------------------------------------------------------------------------
(* lib.rs: run, the ticker task *)

\* Mutant of TickerCheckExiting: the loop never looks at the flag.
TickerNeverChecks ==
    /\ ticker_pc = "loop"
    /\ ticker_pc' = "update"
    /\ UNCHANGED <<params, seedVars, trail, exiting, gpu_mutex, tick_encoder, tick_submits,
                   mainVars, queue, ticks_after_exit, sleep_ns>>

\* if state_tick.exiting { break; }
TickerCheckExiting ==
    /\ ticker_pc = "loop"
    /\ ticker_pc' = IF exiting THEN "done" ELSE "update"
    /\ UNCHANGED <<params, seedVars, trail, exiting, gpu_mutex, tick_encoder, tick_submits,
                   mainVars, queue, ticks_after_exit, sleep_ns>>

\* 1_000_000_000 / target_ticks_per_second as u64: the cast binds tighter
\* than the division, which is an integer division in u64.
SleepDivisor(p) == AsU64(p.target_ticks_per_second)
SleepNanos(p) == NanosPerSecond \div SleepDivisor(p)

\* tokio::time::sleep(Duration::from_nanos(...)).await; a divisor of zero
\* panics with "attempt to divide by zero", which ends the ticker task.
TickerSleep ==
    /\ ticker_pc = "sleep"
    /\ IF SleepDivisor(params) = 0
         THEN ticker_pc' = "panicked" /\ sleep_ns' = sleep_ns
         ELSE ticker_pc' = "loop" /\ sleep_ns' = SleepNanos(params)
    /\ UNCHANGED <<params, seedVars, trail, exiting, gpu_mutex, tick_encoder, tick_submits,
                   mainVars, queue, ticks_after_exit>>

Ticker ==
    \/ TickerCheckExiting
    \/ UpdateLock
    \/ UpdateEncode
    \/ UpdateSubmit
    \/ UpdateUnlock
    \/ TickerSleep

---------------------------------------------------------------------------
(* lib.rs: State::render *)

\* What self.surface.get_current_texture() returns: a texture, or one of
\* wgpu::SurfaceError's variants.
SurfaceErrors == {"Timeout", "Outdated", "Lost", "OutOfMemory"}

\* render_pass.set_bind_group(0 | 1 | 2, ...)
RenderBindGroups ==
    SetBindGroups(<< <<0, "shader_context">>, <<1, "data_layer">>,
                     <<2, "trail_layer">> >>)

RenderPass ==
    [ label       |-> "render-pass",
      pipeline    |-> "render_pipeline",
      bind_groups |-> RenderBindGroups,
      work        |-> <<6, 1>> ]

\* The passes render() records.
RenderPasses == <<RenderPass>>

\* let gpu_lock = self.gpu_mutex.lock().unwrap(); create_command_encoder
RenderLock ==
    /\ main_pc = "render_lock"
    /\ MutexLock("render")
    /\ render_encoder' = <<>>
    /\ main_pc' = "render_encode"
    /\ UNCHANGED <<params, seedVars, trail, exiting, tickerVars, control_flow, next_frame, redraw_requested,
                   exit_requested, frame, queue>>

\* begin_render_pass ... draw(0..6, 0..1)
RenderEncode ==
    /\ main_pc = "render_encode"
    /\ render_encoder' = render_encoder \o RenderPasses
    /\ main_pc' = "render_submit"
    /\ UNCHANGED <<params, seedVars, trail, exiting, gpu_mutex, tickerVars, control_flow, next_frame,
                   redraw_requested, exit_requested, frame, queue>>

\* self.device.queue.submit(std::iter::once(command_encoder.finish()))
RenderSubmit ==
    /\ main_pc = "render_submit"
    /\ QueueSubmit([label |-> "render-command-encoder", passes |-> render_encoder])
    /\ frame' = [frame EXCEPT !.passes = @ + Len(render_encoder)]
    /\ main_pc' = "render_unlock"
    /\ UNCHANGED <<params, seedVars, trail, exiting, gpu_mutex, tickerVars, render_encoder,
                   control_flow, next_frame, redraw_requested, exit_requested>>

\* drop(gpu_lock)
RenderUnlock ==
    /\ main_pc = "render_unlock"
    /\ MutexUnlock("render")
    /\ main_pc' = "render_present"
    /\ UNCHANGED <<params, seedVars, trail, exiting, tickerVars, render_encoder, control_flow, next_frame,
                   redraw_requested, exit_requested, frame, queue>>

\* surface_texture.present(); Ok(()), and the handler's Ok(_) => {} arm
RenderPresent ==
    /\ main_pc = "render_present"
    /\ frame' = [frame EXCEPT !.presented = TRUE]
    /\ main_pc' = "events"
    /\ UNCHANGED <<params, seedVars, trail, exiting, gpu_mutex, tickerVars, render_encoder,
                   control_flow, next_frame, redraw_requested, exit_requested, queue>>

---------------------------------------------------------------------------
(* lib.rs: run, the event loop *)

Keys == {"Escape", "KeyR", "Other"}

\* The event loop hands the closure an event unless it is exiting or the
\* closure is still running.
Dispatching == main_pc = "events" /\ ~exit_requested

\* The platform asks for a redraw on its own (the window is shown, exposed).
PlatformRedraw ==
    /\ Dispatching
    /\ ~redraw_requested
    /\ redraw_requested' = TRUE
    /\ UNCHANGED <<params, seedVars, trail, exiting, gpu_mutex, tickerVars, main_pc,
                   render_encoder, control_flow, next_frame, exit_requested, frame, queue>>

\* Event::NewEvents(StartCause::ResumeTimeReached) => state.window.request_redraw()
\* The event loop starts an iteration with this cause when its wait has run
\* to the deadline of ControlFlow::WaitUntil; a deadline that was reached
\* stays reached until the control flow is set again.
ResumeTimeReached ==
    /\ Dispatching
    /\ control_flow = "WaitUntil"
    /\ next_frame' = [next_frame EXCEPT !.reached = TRUE]
    /\ redraw_requested' = TRUE
    /\ UNCHANGED <<params, seedVars, trail, exiting, gpu_mutex, tickerVars, main_pc,
                   render_encoder, control_flow, exit_requested, frame, queue>>

\* WindowEvent::CloseRequested => elwt.exit()
CloseRequested ==
    /\ Dispatching
    /\ exit_requested' = TRUE
    /\ UNCHANGED <<params, seedVars, trail, exiting, gpu_mutex, tickerVars, main_pc,
                   render_encoder, control_flow, next_frame, redraw_requested, frame, queue>>

\* Mutant of KeyboardInput: the R key calls randomize.
KeyboardInputRandomizes(key, pressed) ==
    /\ Dispatching
    /\ exit_requested' = (exit_requested \/ (pressed /\ key = "Escape"))
    /\ IF pressed /\ key = "KeyR"
         THEN \E rng \in RngDraws : params' = randomize(params, rng)
         ELSE params' = params
    /\ UNCHANGED <<seedVars, trail, exiting, gpu_mutex, tickerVars, main_pc,
                   render_encoder, control_flow, next_frame, redraw_requested, frame, queue>>

\* WindowEvent::KeyboardInput: Escape exits, R does nothing (the call of
\* randomize is commented out), nor does any other key or a key release.
KeyboardInput(key, pressed) ==
    /\ Dispatching
    /\ exit_requested' = (exit_requested \/ (pressed /\ key = "Escape"))
    /\ UNCHANGED <<params, seedVars, trail, exiting, gpu_mutex, tickerVars, main_pc,
                   render_encoder, control_flow, next_frame, redraw_requested, frame, queue>>

MicrosPerSecond == 1000000

\* Duration::from_micros(1_000_000 / state.params.target_ticks_per_second as u64),
\* in microseconds: the cast binds tighter than the division.
time_per_frame == MicrosPerSecond \div AsU64(params.target_ticks_per_second)

\* Mutant of RedrawBegin: the handler leaves the control flow as it is.
RedrawBeginKeepsControlFlow ==
    /\ Dispatching
    /\ redraw_requested
    /\ AsU64(params.target_ticks_per_second) # 0
    /\ redraw_requested' = FALSE
    /\ control_flow' = control_flow
    /\ next_frame' = next_frame

\* What the RedrawRequested handler does before it calls render():
\* elwt.set_control_flow(ControlFlow::WaitUntil(next_frame)); next_frame is
\* now + time_per_frame, which lies ahead of now unless time_per_frame is 0,
\* and a handler that would divide by zero does not get as far as render().
RedrawBegin ==
    /\ Dispatching
    /\ redraw_requested
    /\ AsU64(params.target_ticks_per_second) # 0
    /\ redraw_requested' = FALSE
    /\ control_flow' = "WaitUntil"
    /\ next_frame' = [after |-> time_per_frame, reached |-> time_per_frame = 0]

\* WindowEvent::RedrawRequested, get_current_texture() succeeds: render()
\* goes on to take the lock.
RedrawRequestedOk ==
    /\ RedrawBegin
    /\ frame' = [surface |-> "Ok", reconfigures |-> 0, exits |-> 0,
                 passes |-> 0, presented |-> FALSE]
    /\ main_pc' = "render_lock"
    /\ UNCHANGED <<params, seedVars, trail, exiting, gpu_mutex, tickerVars, render_encoder,
                   exit_requested, queue>>

\* Mutant of HandleSurfaceError: Lost has no arm of its own and is only
\* logged.
HandleSurfaceErrorLostLogged(e) ==
    /\ frame' = [surface |-> e,
                 reconfigures |-> 0,
                 exits |-> IF e = "OutOfMemory" THEN 1 ELSE 0,
                 passes |-> 0, presented |-> FALSE]
    /\ exit_requested' = (exit_requested \/ e = "OutOfMemory")

\* Mutant of HandleSurfaceError: OutOfMemory is handled like Lost.
HandleSurfaceErrorOomReconfigures(e) ==
    /\ frame' = [surface |-> e,
                 reconfigures |-> IF e \in {"Lost", "OutOfMemory"} THEN 1 ELSE 0,
                 exits |-> 0,
                 passes |-> 0, presented |-> FALSE]
    /\ exit_requested' = exit_requested

\* Mutant of HandleSurfaceError: every error but Lost ends the run.
HandleSurfaceErrorOthersExit(e) ==
    /\ frame' = [surface |-> e,
                 reconfigures |-> IF e = "Lost" THEN 1 ELSE 0,
                 exits |-> IF e # "Lost" THEN 1 ELSE 0,
                 passes |-> 0, presented |-> FALSE]
    /\ exit_requested' = (exit_requested \/ e # "Lost")

\* The arm of `match state.render()` an error takes.
HandleSurfaceError(e) ==
    /\ frame' = [surface |-> e,
                 reconfigures |-> IF e = "Lost" THEN 1 ELSE 0,
                 exits |-> IF e = "OutOfMemory" THEN 1 ELSE 0,
                 passes |-> 0, presented |-> FALSE]
    /\ exit_requested' = (exit_requested \/ e = "OutOfMemory")

\* WindowEvent::RedrawRequested, get_current_texture() fails with e:
\* render() returns Err(e) at once.
RedrawRequestedErr(e) ==
    /\ RedrawBegin
    /\ HandleSurfaceError(e)
    /\ UNCHANGED <<params, seedVars, trail, exiting, gpu_mutex, tickerVars, main_pc,
                   render_encoder, queue>>

\* Event::LoopExiting: the call of state.exit() is commented out;
\* event_loop.run returns.
LoopExiting ==
    /\ main_pc = "events"
    /\ exit_requested
    /\ main_pc' = "await_ticker"
    /\ UNCHANGED <<params, seedVars, trail, exiting, gpu_mutex, tickerVars, render_encoder,
                   control_flow, next_frame, redraw_requested, exit_requested, frame, queue>>

\* ticker.await.unwrap(): the join handle is pending until the ticker task
\* has left its loop; then run() returns, or panics on the JoinError of a
\* ticker task that panicked.
TickerAwait ==
    /\ main_pc = "await_ticker"
    /\ main_pc' = CASE ticker_pc = "done"     -> "returned"
                   [] ticker_pc = "panicked" -> "panicked"
                   [] OTHER                  -> "await_ticker"
    /\ UNCHANGED <<params, seedVars, trail, exiting, gpu_mutex, tickerVars, render_encoder,
                   control_flow, next_frame, redraw_requested, exit_requested, frame, queue>>

EventLoop ==
    \/ PlatformRedraw
    \/ ResumeTimeReached
    \/ CloseRequested
    \/ \E key \in Keys, pressed \in BOOLEAN : KeyboardInput(key, pressed)
    \/ RedrawRequestedOk
    \/ \E e \in SurfaceErrors : RedrawRequestedErr(e)
    \/ RenderLock
    \/ RenderEncode
    \/ RenderSubmit
    \/ RenderUnlock
    \/ RenderPresent
    \/ LoopExiting

---------------------------------------------------------------------------
(* device.rs: the queue *)

\* Where the execution of a pass leaves the trail-layer: between a tick's
\* dispatch of diffuse_and_decay and its dispatch of
\* agent_sense_move_deposit the tick is half done ("decayed"); a render
\* pass dispatches neither.
PassEffect(pass, trail_layer) ==
    CASE pass.pipeline = "diffuse_and_decay"        -> "decayed"
      [] pass.pipeline = "agent_sense_move_deposit" -> "settled"
      [] OTHER                                      -> trail_layer

\* The passes of a command buffer execute in the order they were recorded.
RECURSIVE ExecutePasses(_, _)
ExecutePasses(passes, trail_layer) ==
    IF passes = <<>> THEN trail_layer
    ELSE ExecutePasses(Tail(passes), PassEffect(Head(passes), trail_layer))

\* The device executes the command buffers of a queue in submission order,
\* one after the other.
GpuExecute ==
    /\ queue # <<>>
    /\ trail' = ExecutePasses(Head(queue).passes, trail)
    /\ queue' = [j \in 1..(Len(queue) - 1) |->
                   IF Head(queue).label = "command-encoder"
                   THEN [queue[j + 1] EXCEPT !.ticks_ahead = @ - 1]
                   ELSE queue[j + 1]]
    /\ UNCHANGED <<params, seedVars, exiting, gpu_mutex, tickerVars, mainVars>>

---------------------------------------------------------------------------

\* The steps of the thread that runs the event loop which are the
\* program's own, not the platform's choice of an event.
RenderSteps ==
    \/ RenderLock
    \/ RenderEncode
    \/ RenderSubmit
    \/ RenderUnlock
    \/ RenderPresent

Next ==
    \/ Ticker
    \/ EventLoop
    \/ GpuExecute
    \/ TickerAwait

\* run() as it is written.
Spec == Init /\ [][Next]_vars

\* A caller of params.shader_parameters.randomize(); run() has none, both
\* of its calls are commented out.
Randomize ==
    /\ \E rng \in RngDraws : params' = randomize(params, rng)
    /\ UNCHANGED <<seedVars, trail, exiting, gpu_mutex, tickerVars, mainVars, queue, trail>>

\* The configurations State::new builds.
InitStateNew ==
    /\ \E size \in CanvasSizes : params = DefaultParameters(size)
    /\ Constructed

\* run() for the configurations State::new builds.
SpecStateNew == InitStateNew /\ [][Next]_vars

\* run() for the configurations State::new builds, with both threads and
\* the device scheduled fairly, and with a mutex that does not starve a
\* waiter: the thread that drops the guard goes to sleep for the tick
\* period, or back to the event loop, before it locks again, and the drop
\* wakes the thread that waits.
FairLockSpec ==
    /\ SpecStateNew
    /\ WF_vars(Ticker)
    /\ WF_vars(RenderSteps)
    /\ WF_vars(GpuExecute)
    /\ SF_vars(UpdateLock)
    /\ SF_vars(RenderLock)

\* Any number of calls of randomize on the parameters of a State.
SpecRandomize == InitStateNew /\ [][Randomize]_vars

\* Radii of the initial circle: the default 500, 500 * 2^-80 and 500 * 2^70.
CircleRadii ==
    { F32(DefaultInitialCircleRadius, 1), F32E(DefaultInitialCircleRadius, 1, 0 - 80),
      F32E(DefaultInitialCircleRadius, 1, 70) }

\* Canvases agents are seeded on: the window of run(), and a single pixel.
SeedCanvasSizes == { <<RequestedWindowSize, RequestedWindowSize>>, <<1, 1>> }

\* Resources::new is about to call create_data_layer, for a small
\* population and any initial conditions.
InitSeed ==
    /\ \E n \in 0..MaxAgents, size \in SeedCanvasSizes, radius \in CircleRadii,
          heading \in {"Inward", "Outward", "Random"} :
          params = [Parameters(U32(n), U32(DefaultNumberOfActiveAgents), size)
                       EXCEPT !.initial_circle_radius = radius,
                              !.initial_heading = heading]
    /\ agents = <<>>
    /\ data_layer = [created |-> FALSE, size |-> U32(0), min_binding_size |-> U32(0)]
    /\ NotStarted

NextSeed ==
    \/ SeedAgent
    \/ CreateDataLayer
    \/ CreateDataLayerReturn

\* create_data_layer
SpecSeed == InitSeed /\ [][NextSeed]_vars

\* run() for a configuration with another tick rate.
SpecTickRates == InitTickRates /\ [][Next]_vars

\* run() with both threads and the device scheduled fairly: a thread that
\* can take a step of its own eventually takes it.  The platform is not
\* obliged to deliver any event.
FairSpec ==
    /\ Spec
    /\ WF_vars(Ticker)
    /\ WF_vars(RenderSteps)
    /\ WF_vars(LoopExiting)
    /\ WF_vars(TickerAwait)
    /\ WF_vars(GpuExecute)

---------------------------------------------------------------------------
(* lib.rs: State::exit *)

\* fn exit(&mut self) { self.exiting = true; }
\* Nothing in run() calls it: the call in the LoopExiting arm is commented
\* out.
StateExit ==
    /\ ~exiting
    /\ exiting' = TRUE
    /\ UNCHANGED <<params, seedVars, trail, gpu_mutex, tickerVars, mainVars, queue, trail>>

NextCancel ==
    \/ Next
    \/ StateExit

\* run() beside a caller of State::exit, which may call it at any moment.
SpecCancel == Init /\ [][NextCancel]_vars


---------------------------------------------------------------------------
(* What the properties below look at *)

\* Every pass recorded so far and not yet executed: those of the two
\* encoders and those of the command buffers in the queue.
RecordedPasses ==
    { tick_encoder[i] : i \in DOMAIN tick_encoder }
    \cup { render_encoder[i] : i \in DOMAIN render_encoder }
    \cup UNION { { queue[j].passes[i] : i \in DOMAIN queue[j].passes } : j \in DOMAIN queue }

\* The grids of the dispatches recorded for a compute pipeline.
Grids(pipeline) == { pass.work : pass \in { q \in RecordedPasses : q.pipeline = pipeline } }

\* The command buffers in the queue that update() submitted.
TickBuffers == { queue[j] : j \in { k \in DOMAIN queue : queue[k].label = "command-encoder" } }

\* Invocations of a grid of 8 x 8 x 1 workgroups, as an unbounded number.
Invocations(grid) ==
    WideMul(WideMul(WideMul(U32(grid[2]), grid[1]), grid[3]), threads_per_workgroup)

ActiveWithinPopulation ==
    /\ ~IsZero(params.number_of_active_agents)
    /\ WideLeq(params.number_of_active_agents, params.number_of_agents)

\* n / d rounded up, in unbounded integers.
CeilDiv(n, d) == (n + d - 1) \div d

---------------------------------------------------------------------------
(* The agent_sense_move_deposit grid *)

\* C1: whenever 0 < active agents <= population, every grid update()
\* records for agent_sense_move_deposit has x = 32, z = 1 and at least as
\* many invocations (32 * y * 64) as there are active agents.
C1_NeverUnderCovers ==
    ActiveWithinPopulation =>
        \A grid \in Grids("agent_sense_move_deposit") :
            /\ grid[1] = 32
            /\ grid[3] = 1
            /\ WideLeq(params.number_of_active_agents, Invocations(grid))

\* C1 witness: a tick was recorded for an active count within the
\* population that is no multiple of 32 * 64, so that the rounding decides.
C1_Witness ==
    /\ ActiveWithinPopulation
    /\ params.number_of_active_agents = U32(2049)
    /\ <<32, 2, 1>> \in Grids("agent_sense_move_deposit")
    /\ TickBuffers # {}

\* C2 as stated: whenever 0 < active agents <= population, y <= 32.
C2_YAtMost32 ==
    ActiveWithinPopulation =>
        \A grid \in Grids("agent_sense_move_deposit") : grid[2] <= 32

\* C2 amended: whenever 0 < active agents <= population and the active
\* count is at most 32 * 32 * 64 = 65,536, y <= 32; the default count of
\* 10,000,000 gives y = 4883.
C2_YAtMost32UpTo65536 ==
    \A grid \in Grids("agent_sense_move_deposit") :
        /\ ( /\ ActiveWithinPopulation
             /\ WideLeq(params.number_of_active_agents,
                        U32(NUMBER_OF_WORKGROUPS_X * 32 * threads_per_workgroup)) )
           => grid[2] <= 32
        /\ params.number_of_active_agents = U32(DefaultNumberOfActiveAgents)
           => grid[2] = 4883

\* C2 witness: a tick was recorded for exactly 65,536 active agents, the
\* largest count with y = 32.
C2_Witness ==
    /\ ActiveWithinPopulation
    /\ params.number_of_active_agents = U32(65536)
    /\ <<32, 32, 1>> \in Grids("agent_sense_move_deposit")
    /\ TickBuffers # {}

---------------------------------------------------------------------------
(* The configuration *)

\* The configuration is the one State::new builds: the defaults.
BuiltByStateNew == \E size \in CanvasSizes : params = DefaultParameters(size)

\* C3: in every state of a run whose configuration State::new built, the
\* active-agent count is at most the population.
C3_ActiveAtMostPopulation ==
    BuiltByStateNew =>
        WideLeq(params.number_of_active_agents, params.number_of_agents)

---------------------------------------------------------------------------
(* The tick *)

\* C4: every command buffer update() submits holds exactly two compute
\* passes, diffuse_and_decay first and agent_sense_move_deposit second, and
\* a call of update() that has submitted has submitted exactly once.
C4_DecayThenMove ==
    /\ \A cb \in TickBuffers :
          /\ Len(cb.passes) = 2
          /\ cb.passes[1].pipeline = "diffuse_and_decay"
          /\ cb.passes[2].pipeline = "agent_sense_move_deposit"
    /\ ticker_pc \in {"unlock", "sleep"} => tick_submits = 1
    /\ ticker_pc \in {"encode", "submit"} => tick_submits = 0

\* C4 witness: update() has returned and its command buffer is the last
\* one in the queue.
C4_Witness ==
    /\ ticker_pc = "sleep"
    /\ tick_submits = 1
    /\ queue # <<>>
    /\ queue[Len(queue)].label = "command-encoder"

\* C5: the diffuse_and_decay grid is (ceil(w / 8), ceil(h / 8), 1), so that
\* its 8 x 8 workgroups cover every pixel of the canvas.
C5_DecayGridCoversCanvas ==
    \A grid \in Grids("diffuse_and_decay") :
        /\ grid = <<CeilDiv(params.canvas_width, 8), CeilDiv(params.canvas_height, 8), 1>>
        /\ grid[1] * 8 >= params.canvas_width
        /\ grid[2] * 8 >= params.canvas_height

---------------------------------------------------------------------------
(* The lock *)

\* update() is between taking and dropping gpu_lock.
TickerInCriticalSection == ticker_pc \in {"encode", "submit", "unlock"}

\* render() is between taking and dropping gpu_lock.
RenderInCriticalSection == main_pc \in {"render_encode", "render_submit", "render_unlock"}

\* C6: update() and render() are never both between taking and dropping
\* the lock, and whoever is there is the one the mutex names as holder.
C6_MutualExclusion ==
    /\ ~(TickerInCriticalSection /\ RenderInCriticalSection)
    /\ TickerInCriticalSection => gpu_mutex = "ticker"
    /\ RenderInCriticalSection => gpu_mutex = "render"

\* C6 witness: render() waits for the lock while update() holds it with
\* its passes recorded and not yet submitted.
C6_Witness ==
    /\ ticker_pc = "submit"
    /\ main_pc = "render_lock"
    /\ gpu_mutex = "ticker"

---------------------------------------------------------------------------
(* Shutdown *)

\* C7: the ticker enters update() only from the top of its loop, having
\* read the exit flag as unset; at most one tick is submitted once the flag
\* is set; the ticker stops only on a set flag, and once stopped it takes
\* no further step.
C7_BoundedCancellation ==
    /\ [](ticks_after_exit <= 1)
    /\ [](ticker_pc = "done" => exiting)
    /\ [][(ticker_pc' = "update" /\ ticker_pc # "update")
             => (ticker_pc = "loop" /\ ~exiting)]_vars
    /\ [][ticker_pc = "done" => UNCHANGED tickerVars]_vars

\* C7 witness: the flag was set during a tick, that one tick was submitted,
\* and the ticker has seen the flag and stopped.
C7_Witness ==
    /\ exiting
    /\ ticks_after_exit = 1
    /\ ticker_pc = "done"

\* C8: once the event loop has exited, the exit flag is eventually set, the
\* ticker stops and run() returns.
C8_ShutdownTerminates ==
    (main_pc = "await_ticker")
        ~> (exiting /\ ticker_pc = "done" /\ main_pc = "returned")

---------------------------------------------------------------------------
(* Surface errors *)

\* A step in which the RedrawRequested handler runs.
RedrawHandled == redraw_requested /\ ~redraw_requested'

\* C9: a handler whose render() fails with Lost reconfigures the surface
\* exactly once, requests no exit and submits nothing; the event loop then
\* goes on, with the next deadline set, so that the next redraw is
\* requested and handled.
C9_LostReconfiguresOnce ==
    /\ [][(RedrawHandled /\ frame'.surface = "Lost")
             => /\ frame'.reconfigures = 1
                /\ frame'.exits = 0
                /\ ~exit_requested'
                /\ frame'.passes = 0
                /\ queue' = queue
                /\ gpu_mutex' = gpu_mutex
                /\ main_pc' = "events"
                /\ control_flow' = "WaitUntil"]_vars
    /\ []((frame.surface = "Lost" /\ Dispatching)
             => /\ ENABLED ResumeTimeReached
                /\ redraw_requested => ENABLED RedrawRequestedOk)

\* C9 witness: after a lost frame the next redraw has been requested and
\* is about to be handled.
C9_Witness ==
    /\ frame.surface = "Lost"
    /\ frame.reconfigures = 1
    /\ Dispatching
    /\ redraw_requested

\* C10: a handler whose render() fails with OutOfMemory requests the exit
\* of the event loop and does not reconfigure the surface.
C10_OutOfMemoryExits ==
    /\ [][(RedrawHandled /\ frame'.surface = "OutOfMemory")
             => /\ exit_requested'
                /\ frame'.exits = 1
                /\ frame'.reconfigures = 0
                /\ frame'.passes = 0
                /\ queue' = queue]_vars
    /\ [](frame.surface = "OutOfMemory" => exit_requested)

\* C10 witness: the event loop has exited on an out-of-memory frame.
C10_Witness ==
    /\ frame.surface = "OutOfMemory"
    /\ frame.exits = 1
    /\ frame.reconfigures = 0
    /\ main_pc = "await_ticker"

\* C11: a handler whose render() fails with an error other than Lost and
\* OutOfMemory neither reconfigures the surface nor requests an exit and
\* submits nothing; the event loop goes on with the next deadline set, so
\* that a later redraw is requested and handled.
C11_OtherErrorsSkipFrame ==
    /\ [][(RedrawHandled /\ frame'.surface \in SurfaceErrors \ {"Lost", "OutOfMemory"})
             => /\ frame'.reconfigures = 0
                /\ frame'.exits = 0
                /\ exit_requested' = exit_requested
                /\ frame'.passes = 0
                /\ ~frame'.presented
                /\ queue' = queue
                /\ main_pc' = "events"
                /\ control_flow' = "WaitUntil"]_vars
    /\ []((frame.surface \in SurfaceErrors \ {"Lost", "OutOfMemory"} /\ Dispatching)
             => /\ ENABLED ResumeTimeReached
                /\ redraw_requested => ENABLED RedrawRequestedOk)

\* C11 witness: after a frame that timed out the next redraw has been
\* requested and is about to be handled.
C11_Witness ==
    /\ frame.surface = "Timeout"
    /\ frame.reconfigures = 0
    /\ Dispatching
    /\ redraw_requested

\* The binding sets a pass binds, and those of them its stages can read.
Bound(pass) == {pass.bind_groups[i] : i \in DOMAIN pass.bind_groups}
Readable(pass) ==
    {r \in Bound(pass) : Visibility(r) \cap PipelineStages(pass.pipeline) # {}}

RecordedRenderPasses == {pass \in RecordedPasses : pass.pipeline = "render_pipeline"}

\* C12 as stated: the render pass reads only the shader-context and the
\* trail-layer, and the data-layer is never bound by it.
C12_DataLayerNeverBound ==
    \A pass \in RecordedRenderPasses :
        /\ Readable(pass) \subseteq {"shader_context", "trail_layer"}
        /\ "data_layer" \notin Bound(pass)

\* C12 amended: the render pass binds all three sets, the data-layer at
\* slot 1, but the data-layer is visible to the compute stage only, so the
\* sets its vertex and fragment stages can read are exactly the
\* shader-context and the trail-layer.
C12_DataLayerBoundNotReadable ==
    \A pass \in RecordedRenderPasses :
        /\ pass.bind_groups[2] = "data_layer"
        /\ Readable(pass) = {"shader_context", "trail_layer"}

\* C12 witness: a submitted render pass with the data-layer at slot 1.
C12_Witness ==
    \E i \in DOMAIN queue :
        \E j \in DOMAIN queue[i].passes :
            /\ queue[i].passes[j].pipeline = "render_pipeline"
            /\ queue[i].passes[j].bind_groups[2] = "data_layer"

\* floor(10^9 / t) for a tick rate t > 0.
FloorOfPeriodNanos(t) == (NanosPerSecond * t.den) \div t.num

\* C13: for every positive tick rate t the ticker sleeps floor(10^9 / t)
\* nanoseconds between two ticks, and 16,666,666 ns at t = 60.
C13_SleepIsFloorOfPeriod ==
    /\ ticker_pc # "panicked"
    /\ sleep_ns # 0 => sleep_ns = FloorOfPeriodNanos(params.target_ticks_per_second)
    /\ (sleep_ns # 0 /\ params.target_ticks_per_second = F32(60, 1))
          => sleep_ns = 16666666

\* The fields randomize assigns.
RandomizedFields ==
    { "decay_strength", "sensor_angle_degrees", "max_turn_angle_degrees",
      "max_rand_turn_angle_degrees", "high_density_speed_boost",
      "high_density_threshold", "deposit_strength", "sensor_distance" }

\* C15: a call of randomize changes none of the fields but decay_strength,
\* sensor_angle_degrees, max_turn_angle_degrees, max_rand_turn_angle_degrees,
\* high_density_speed_boost, high_density_threshold, deposit_strength and
\* sensor_distance: canvas_width, canvas_height, number_of_active_agents and
\* every other field keep their values, however often it is called.
C15_RandomizeKeepsTheRest ==
    [][/\ DOMAIN params' = DOMAIN params
       /\ \A field \in DOMAIN params \ RandomizedFields :
             params'[field] = params[field]]_vars

\* C15 witness: randomize has replaced all eight tunables of a 1401 x 1400
\* canvas by fractional values of their ranges.
C15_Witness ==
    /\ params.canvas_width = 1401
    /\ \A field \in RandomizedFields :
          /\ params[field] # DefaultParameters(<<1401, 1400>>)[field]
          /\ \E rng \in RngDraws :
                /\ params[field] = rng[field]
                /\ rng[field].den > 1

\* C14: no step of run() changes the configuration: canvas width and
\* height, population count, active-agent count, every other parameter the
\* two loops read, and with them the size of every buffer, stay what they
\* were when State::new returned; that holds of ticks, frames, surface
\* errors and key presses alike.
C14_ConfigurationFixed ==
    [][/\ params' = params
       /\ DataLayerSize(params') = DataLayerSize(params)
       /\ TrailLayerSize(params') = TrailLayerSize(params)]_vars

\* C14 witness: a run of the default configuration in which a tick has been
\* submitted, a frame has met a lost surface and an exit was requested
\* (by Escape or by closing the window).
C14_Witness ==
    /\ params = DefaultParameters(<<RequestedWindowSize, RequestedWindowSize>>)
    /\ sleep_ns # 0
    /\ frame.surface = "Lost"
    /\ exit_requested
    /\ main_pc = "events"

\* C16: seeding gives one agent per population slot: when the buffer is
\* created the Vec holds number_of_agents agents, the buffer has
\* number_of_agents * 16 bytes, and that is no less than the minimum
\* binding size of its layout; the Vec never holds more.
C16_OneAgentPerSlot ==
    /\ [][(~data_layer.created /\ data_layer'.created)
             => /\ U32(Len(agents)) = params.number_of_agents
                /\ data_layer'.size = WideMul(U32(Len(agents)), SizeOfAgent)]_vars
    /\ [](data_layer.created
             => /\ data_layer.size = WideMul(params.number_of_agents, SizeOfAgent)
                /\ WideLeq(data_layer.min_binding_size, data_layer.size))
    /\ [](WideLeq(U32(Len(agents)), params.number_of_agents))

\* C16 witness: the buffer of a population of MaxAgents has been created
\* from MaxAgents agents, of which the first and the last differ.
C16_Witness ==
    /\ data_layer.created
    /\ params.number_of_agents = U32(MaxAgents)
    /\ Len(agents) = MaxAgents
    /\ agents[1] # agents[MaxAgents]

\* What the claims about headings look at.
ZeroVector == <<F32Zero, F32Zero>>
NegVector(v) == <<F32Neg(v[1]), F32Neg(v[2])>>
HeadingOf(initial_heading, agent) ==
    InitialDirection(initial_heading, agent.position, Middle(params), ZeroVector)

\* The vector an agent's heading is normalized from under Inward.
InwardVector(agent) == vector_from_a_to_b(agent.position, Middle(params))

\* v is finite and x^2 + y^2 = 1 for the exact quotients x and y.
UnitLength(v) ==
    /\ v[1].den # 0 /\ v[2].den # 0
    /\ v[1].exp = 0 /\ v[2].exp = 0
    /\ v[1].num * v[1].num * v[2].den * v[2].den
         + v[2].num * v[2].num * v[1].den * v[1].den
       = v[1].den * v[1].den * v[2].den * v[2].den

\* C17: from every spawn point other than the canvas midpoint, the heading
\* under Outward is component by component the negation of the heading
\* under Inward.
C17_OutwardNegatesInward ==
    \A i \in DOMAIN agents :
        agents[i].position # Middle(params)
           => /\ HeadingOf("Outward", agents[i]) = NegVector(HeadingOf("Inward", agents[i]))
              /\ params.initial_heading \in {"Inward", "Outward"}
                    => agents[i].velocity = HeadingOf(params.initial_heading, agents[i])

\* C17 witness: an agent seeded under Outward at (703, 704) of the 1400 x
\* 1400 canvas heads (0.6, 0.8); under Inward it would head (-0.6, -0.8).
C17_Witness ==
    /\ params.initial_heading = "Outward"
    /\ \E i \in DOMAIN agents :
          /\ agents[i].position = <<F32(703, 1), F32(704, 1)>>
          /\ agents[i].velocity = <<F32(3, 5), F32(4, 5)>>
          /\ HeadingOf("Inward", agents[i]) = <<F32(-3, 5), F32(-4, 5)>>

\* The agents seeded under a policy that normalizes a vector.
Normalized == IF params.initial_heading = "Random" THEN {} ELSE DOMAIN agents

SquaresInRange(v) ==
    \A k \in 1..2 : F32Powi2(v[k]) = F32E(v[k].num * v[k].num, 1, 2 * v[k].exp)
                       \/ v[k] = F32Zero

\* The squares of the components that are not 0 underflow to 0, or one of
\* them overflows.
SquaresOutOfRange(v) ==
    \/ \A k \in 1..2 : F32Powi2(v[k]) = F32Zero
    \/ \E k \in 1..2 : F32Powi2(v[k]) = F32Infinity

PipelinesOf(command_buffer) ==
    [i \in DOMAIN command_buffer.passes |-> command_buffer.passes[i].pipeline]

\* C19: with the device executing command buffers in submission order, a
\* render pass executes entirely before or entirely after the two
\* dispatches of a tick and never sees the trail-layer decayed but without
\* the tick's deposits: both dispatches of a tick are in one command buffer,
\* decay first, a render pass is in a buffer of its own, and between two
\* command buffers the trail-layer is settled.  A command buffer starts when
\* every tick submitted before it has been executed, so that a tick's writes
\* are there for the next tick and for every render pass submitted after it.
C19_RenderSeesWholeTicks ==
    /\ [](trail = "settled")
    /\ [](\A j \in DOMAIN queue :
             /\ queue[j].label = "command-encoder"
                   => PipelinesOf(queue[j]) = <<"diffuse_and_decay", "agent_sense_move_deposit">>
             /\ queue[j].label = "render-command-encoder"
                   => PipelinesOf(queue[j]) = <<"render_pipeline">>
             /\ queue[j].ticks_ahead = Cardinality({k \in TicksIn(queue) : k < j}))
    /\ [][Len(queue') < Len(queue)
             => /\ Head(queue).ticks_ahead = 0
                /\ trail' = "settled"
                /\ Head(queue).label = "render-command-encoder" => trail = "settled"]_vars

\* C19 witness: a render pass was submitted after a tick that the device has
\* not executed yet, and waits for it in the queue.
C19_Witness ==
    /\ Len(queue) = 2
    /\ queue[1].label = "command-encoder"
    /\ queue[2].label = "render-command-encoder"
    /\ queue[2].ticks_ahead = 1
    /\ sleep_ns # 0

\* The steps a thread takes between lock() and drop(gpu_lock), and the
\* device's.
LockHolderSteps ==
    \/ UpdateEncode
    \/ UpdateSubmit
    \/ UpdateUnlock
    \/ RenderEncode
    \/ RenderSubmit
    \/ RenderUnlock
    \/ GpuExecute

\* C20: the lock is held only between lock() and the drop that follows the
\* submission: update() and render() have released it when they return,
\* render() has released it when it presents the frame, and a render() that
\* fails to acquire the surface texture returns without touching it.  No
\* state is a deadlock of the two threads: while the lock is held, its
\* holder or the device can take a step, and a free lock can be taken.
\* Under fair scheduling a held lock is released, and a thread that waits
\* for the lock gets it.
C20_LockAlwaysReleased ==
    /\ [](gpu_mutex = "ticker" <=> ticker_pc \in {"encode", "submit", "unlock"})
    /\ [](gpu_mutex = "render"
             <=> main_pc \in {"render_encode", "render_submit", "render_unlock"})
    /\ [][(RedrawHandled /\ frame'.surface \in SurfaceErrors)
             => (gpu_mutex' = gpu_mutex /\ main_pc' = "events")]_vars
    /\ [][ticker_pc = "submit" /\ ticker_pc' # "submit" => ticker_pc' = "unlock"]_vars
    /\ [][main_pc = "render_submit" /\ main_pc' # "render_submit"
             => main_pc' = "render_unlock"]_vars
    /\ [](gpu_mutex # "free" => ENABLED LockHolderSteps)
    /\ []((gpu_mutex = "free" /\ ticker_pc = "update") => ENABLED UpdateLock)
    /\ []((gpu_mutex = "free" /\ main_pc = "render_lock") => ENABLED RenderLock)
    /\ (gpu_mutex # "free") ~> (gpu_mutex = "free")
    /\ (ticker_pc = "update") ~> (gpu_mutex = "ticker")
    /\ (main_pc = "render_lock") ~> (gpu_mutex = "render")

\* C20 witness: the ticker waits for the lock while render() holds it and
\* is about to drop it; the ticker has released the lock of an earlier tick.
C20_Witness ==
    /\ ticker_pc = "update"
    /\ gpu_mutex = "render"
    /\ main_pc = "render_unlock"
    /\ sleep_ns # 0

\* C21: every pass the host records, the two compute passes of a tick and
\* the render pass, binds the sets in the order of the shared pipeline
\* layout: the shader-context at slot 0, the data-layer at slot 1, the
\* trail-layer at slot 2, and none of them at another slot.
C21_BindOrderIsLayoutOrder ==
    \A pass \in RecordedPasses :
        /\ pass.bind_groups = BindGroups
        /\ \A i \in DOMAIN pass.bind_groups, j \in DOMAIN pass.bind_groups :
              pass.bind_groups[i] = pass.bind_groups[j] => i = j

\* C21 witness: passes of all three pipelines are recorded at once, those
\* of a tick in the queue and the render pass in render()'s encoder.
C21_Witness ==
    /\ \E j \in DOMAIN queue :
          PipelinesOf(queue[j]) = <<"diffuse_and_decay", "agent_sense_move_deposit">>
    /\ render_encoder # <<>>
    /\ render_encoder[1].pipeline = "render_pipeline"
    /\ main_pc = "render_submit"

----------------------------------------------------------------------------
(* The round-ups of the agent_sense_move_deposit grid *)

\* ceil(ceil(a / 64) / 32) of an unsigned 32-bit a in unbounded integers:
\* 2^16 is a multiple of 64, so ceil(a / 64) = hi * 2^16 / 64 + ceil(lo / 64).
UnboundedWorkgroupsY(a) ==
    CeilDiv(a.hi * (Half \div threads_per_workgroup) + CeilDiv(a.lo, threads_per_workgroup),
            NUMBER_OF_WORKGROUPS_X)

\* C22: for every active-agent count, every grid update() records for
\* agent_sense_move_deposit is (32, ceil(ceil(A / 64) / 32), 1) computed in
\* unbounded integers: neither add-then-divide round-up wraps modulo 2^32.
C22_GridIsUnboundedRoundUp ==
    \A grid \in Grids("agent_sense_move_deposit") :
        grid = <<NUMBER_OF_WORKGROUPS_X,
                 UnboundedWorkgroupsY(params.number_of_active_agents), 1>>

----------------------------------------------------------------------------
(* The deadline of the render loop *)

\* render() has been called by the current handler and has not returned.
RenderRunning ==
    main_pc \in {"render_lock", "render_encode", "render_submit",
                 "render_unlock", "render_present"}

\* The wait of the event loop runs to the deadline: the only step at which
\* the host itself asks for a redraw.
DeadlineReached == ~next_frame.reached /\ next_frame'.reached

\* C23: each handled RedrawRequested records at most one render pass and,
\* before render() has an outcome, sets the control flow to WaitUntil a
\* deadline one frame period (1_000_000 / 60 microseconds) ahead; the host
\* requests a redraw only when the wait has run to such a deadline, and that
\* request stays pending until a handler sets the next deadline, so that a
\* full period lies between two redraws the host requests; once a first
\* redraw was handled a deadline is always set and, unless the loop is
\* exiting, the wake-up at the deadline stays possible, whether the frame
\* was drawn or skipped.
C23_RateCappedSelfSustaining ==
    /\ [][RedrawHandled
             => /\ control_flow' = "WaitUntil"
                /\ next_frame' = [after |-> MicrosPerSecond \div DefaultTargetTicksPerSecond,
                                  reached |-> FALSE]
                /\ frame'.passes = 0
                /\ ~frame'.presented]_vars
    /\ [](RenderRunning
             => /\ control_flow = "WaitUntil"
                /\ ~next_frame.reached
                /\ ~redraw_requested)
    /\ [](frame.passes <= 1 /\ Len(render_encoder) <= 1)
    /\ [][DeadlineReached
             => /\ control_flow = "WaitUntil"
                /\ next_frame.after > 0
                /\ redraw_requested']_vars
    /\ [][(~redraw_requested /\ redraw_requested')
             => DeadlineReached \/ (PlatformRedraw /\ next_frame' = next_frame)]_vars
    /\ [](next_frame.reached => redraw_requested /\ control_flow = "WaitUntil")
    /\ [](frame.surface # "none" => control_flow = "WaitUntil")
    /\ []((frame.surface \in SurfaceErrors \ {"OutOfMemory"} /\ Dispatching)
             => ENABLED ResumeTimeReached)

\* C23 witness: a frame was skipped for a lost surface, the wait has then
\* run to the deadline the handler had set and the host has requested the
\* next redraw, which is about to be handled.
C23_Witness ==
    /\ frame.surface = "Lost"
    /\ control_flow = "WaitUntil"
    /\ next_frame = [after |-> 16666, reached |-> TRUE]
    /\ redraw_requested
    /\ Dispatching

=============================================================================
